---- MODULE Spec2Model ----
(***************************************************************************)
(* Model of fugitive_refactor_analyzer.py: one run of main() over two      *)
(* input files, with the matching loop and the block-assembly fold of      *)
(* find_all_matches taken one iteration at a time.                         *)
(*                                                                         *)
(* A line of text is a sequence of one-character strings.  A ratio         *)
(* (similarity, threshold) is written in hundredths: 1.0 is 100, 0.7 is 70.*)
(***************************************************************************)
EXTENDS Integers, Sequences, FiniteSets, TLC

(***************************************************************************)
(* Bounds of the model.                                                    *)
(***************************************************************************)
\* longest file of the repeating dense family: every sequence over
\* RepeatPool, where one content of length >= 5 comes in two spellings
MaxRepeatLines == 3
\* longest file of the mixed dense family: every sequence over MixedPool,
\* which adds a second content of length >= 5
MaxMixedLines == 2
\* file length of the long sparse family: one or two moved lines among
\* filler, so that gaps of 5 and more occur
LongLen == 9
\* file length of the short sparse family: any number of moved lines, so
\* that several blocks occur
MidLen == 5

(***************************************************************************)
(* Literals of the program.                                                *)
(***************************************************************************)
\* len(content) >= 5 / len(old_content) < 5
MinContentLen == 5
\* 0 < diff <= 4
MaxGap == 4
\* abs(old_diff - new_diff) <= 2
MaxGapSkew == 2
\* current_block['line_count'] >= 2
MinBlockLines == 2
\* 'similarity': 1.0
ExactSimilarity == 100
\* --threshold default=0.7
DefaultThreshold == 70

(***************************************************************************)
(* Text.                                                                   *)
(***************************************************************************)
\* the characters that str.strip() strips and \s matches, among those used here
IsSpace(c) == c \in {" ", "\t", "\n"}

RECURSIVE LStrip(_)
LStrip(s) == IF s # <<>> /\ IsSpace(Head(s)) THEN LStrip(Tail(s)) ELSE s

RECURSIVE RStrip(_)
RStrip(s) ==
  IF s # <<>> /\ IsSpace(s[Len(s)]) THEN RStrip(SubSeq(s, 1, Len(s) - 1)) ELSE s

\* line.strip()
Strip(s) == RStrip(LStrip(s))

\* re.sub(r'\s+', ' ', s): every maximal run of whitespace becomes one space
RECURSIVE CollapseSpaces(_)
CollapseSpaces(s) ==
  IF s = <<>> THEN <<>>
  ELSE IF IsSpace(Head(s)) THEN <<" ">> \o CollapseSpaces(LStrip(s))
  ELSE <<Head(s)>> \o CollapseSpaces(Tail(s))

normalize_line(line) == CollapseSpaces(Strip(line))

(***************************************************************************)
(* Files.  A path names a file that is missing, one that exists but cannot *)
(* be opened for reading (a directory, no read permission), or a readable  *)
(* file holding lines.                                                     *)
(***************************************************************************)
MissingFile == [kind |-> "missing", lines |-> <<>>]
UnreadableFile == [kind |-> "unreadable", lines |-> <<>>]
TextFile(ls) == [kind |-> "text", lines |-> ls]

\* read_file_lines: the lines of a readable file, [] for a missing one; any
\* other failure of open() is an OSError the function does not catch
read_file_raises(file) == file.kind = "unreadable"
read_file_lines(file) == IF file.kind = "missing" THEN <<>> ELSE file.lines

(***************************************************************************)
(* Inputs.                                                                 *)
(***************************************************************************)
LineA == <<"a", "b", " ", "c", "d", "\n">>
LineA2 == <<" ", "a", "b", " ", "\t", "c", "d", " ", "\n">>
LineShort == <<"a", "b", "c", "d", " ", "\n">>
LineC == <<"v", "w", "x", "y", "z", "\n">>
RepeatPool == {LineA, LineA2, LineShort}
MixedPool == RepeatPool \cup {LineC}

Thresholds == {DefaultThreshold, 100}

SeqsUpTo(S, n) == UNION {[1..k -> S] : k \in 0..n}

\* every path: missing, unreadable, or a file of at most n lines over S
DenseFiles(S, n) == {MissingFile, UnreadableFile} \cup {TextFile(ls) : ls \in SeqsUpTo(S, n)}
DenseInputs ==
  (DenseFiles(RepeatPool, MaxRepeatLines) \X DenseFiles(RepeatPool, MaxRepeatLines))
    \cup (DenseFiles(MixedPool, MaxMixedLines) \X DenseFiles(MixedPool, MaxMixedLines))

Glyph == <<"0", "1", "2", "3", "4", "5", "6", "7", "8", "9", "A", "B", "C">>
Filler == <<"}", "\n">>
Moved(p) == <<" ", "l", "i", "n", "e", Glyph[p], "\n">>

\* the partial injections of 1..n into itself that move 1..k lines
Injections(n, k) ==
  UNION {{f \in [S -> 1..n] : \A p, q \in S : p # q => f[p] # f[q]} :
           S \in {T \in SUBSET (1..n) : Cardinality(T) \in 1..k}}

SparseOld(n, f) == [p \in 1..n |-> IF p \in DOMAIN f THEN Moved(p) ELSE Filler]
SparseNew(n, f) ==
  [q \in 1..n |-> IF \E p \in DOMAIN f : f[p] = q
                  THEN Moved(CHOOSE p \in DOMAIN f : f[p] = q) ELSE Filler]
SparseInputs(n, k) ==
  {<<TextFile(SparseOld(n, f)), TextFile(SparseNew(n, f))>> : f \in Injections(n, k)}

Inputs == DenseInputs \cup SparseInputs(LongLen, 2) \cup SparseInputs(MidLen, MidLen)

(***************************************************************************)
(* find_all_matches.                                                       *)
(***************************************************************************)
\* {i: normalize_line(line) for i, line in enumerate(lines, 1)}
Normalized(lines) == [n \in 1..Len(lines) |-> normalize_line(lines[n])]

\* IndexFrom with each line number put at the front of its list
RECURSIVE IndexFromPrepending(_, _, _)
IndexFromPrepending(norm, line_num, index) ==
  IF line_num > Len(norm) THEN index
  ELSE LET content == norm[line_num] IN
       IF Len(content) >= MinContentLen
       THEN IndexFromPrepending(norm, line_num + 1,
              IF content \in DOMAIN index
              THEN [index EXCEPT ![content] = <<line_num>> \o @]
              ELSE [c \in DOMAIN index \cup {content} |->
                      IF c = content THEN <<line_num>> ELSE index[c]])
       ELSE IndexFromPrepending(norm, line_num + 1, index)

\* content -> line numbers, in ascending order, of the contents of length >= 5
RECURSIVE IndexFrom(_, _, _)
IndexFrom(norm, line_num, index) ==
  IF line_num > Len(norm) THEN index
  ELSE LET content == norm[line_num] IN
       IF Len(content) >= MinContentLen
       THEN IndexFrom(norm, line_num + 1,
              IF content \in DOMAIN index
              THEN [index EXCEPT ![content] = Append(@, line_num)]
              ELSE [c \in DOMAIN index \cup {content} |->
                      IF c = content THEN <<line_num>> ELSE index[c]])
       ELSE IndexFrom(norm, line_num + 1, index)

EmptyIndex == [c \in {} |-> <<>>]
BuildIndex(norm) == IndexFrom(norm, 1, EmptyIndex)

\* Claimable without the used_new test
ClaimableIgnoringUsed(new_line_num, old_line_num, used) == old_line_num # new_line_num

\* Claimable without the self-pair test
ClaimableIgnoringSelf(new_line_num, old_line_num, used) == new_line_num \notin used

\* new_line_num not in used_new and old_line_num != new_line_num
Claimable(new_line_num, old_line_num, used) ==
  new_line_num \notin used /\ old_line_num # new_line_num

\* FirstClaimable scanning the candidates from the last one
RECURSIVE FirstClaimableFromEnd(_, _, _)
FirstClaimableFromEnd(cands, old_line_num, used) ==
  IF cands = <<>> THEN 0
  ELSE IF Claimable(cands[Len(cands)], old_line_num, used) THEN cands[Len(cands)]
  ELSE FirstClaimableFromEnd(SubSeq(cands, 1, Len(cands) - 1), old_line_num, used)

\* the inner for loop with its break: the first claimable candidate, 0 if none
RECURSIVE FirstClaimable(_, _, _)
FirstClaimable(cands, old_line_num, used) ==
  IF cands = <<>> THEN 0
  ELSE IF Claimable(Head(cands), old_line_num, used) THEN Head(cands)
  ELSE FirstClaimable(Tail(cands), old_line_num, used)

Match(o, n) == [old_line |-> o, new_line |-> n, similarity |-> ExactSimilarity]

\* MatchIter with the match kept only when its similarity exceeds the threshold
MatchIterAboveThreshold(norm, index, st, old_line_num, thr) ==
  LET old_content == norm[old_line_num] IN
  IF Len(old_content) < MinContentLen THEN st
  ELSE IF old_content \notin DOMAIN index THEN st
  ELSE LET n == FirstClaimable(index[old_content], old_line_num, st.used_new) IN
       IF n = 0 \/ ~(ExactSimilarity > thr) THEN st
       ELSE [matches |-> Append(st.matches, Match(old_line_num, n)),
             used_new |-> st.used_new \cup {n}]

\* one iteration of the loop over old_norm.items(); st = [matches, used_new]
MatchIter(norm, index, st, old_line_num, thr) ==
  LET old_content == norm[old_line_num] IN
  IF Len(old_content) < MinContentLen THEN st
  ELSE IF old_content \notin DOMAIN index THEN st
  ELSE LET n == FirstClaimable(index[old_content], old_line_num, st.used_new) IN
       IF n = 0 THEN st
       ELSE [matches |-> Append(st.matches, Match(old_line_num, n)),
             used_new |-> st.used_new \cup {n}]

\* InsertByOldLine with new_line as the sort key
RECURSIVE InsertByNewLine(_, _)
InsertByNewLine(m, sorted) ==
  IF sorted = <<>> THEN <<m>>
  ELSE IF sorted[Len(sorted)].new_line <= m.new_line THEN Append(sorted, m)
  ELSE Append(InsertByNewLine(m, SubSeq(sorted, 1, Len(sorted) - 1)), sorted[Len(sorted)])

\* matches.sort(key=lambda x: x['old_line']): a stable insertion sort
RECURSIVE InsertByOldLine(_, _)
InsertByOldLine(m, sorted) ==
  IF sorted = <<>> THEN <<m>>
  ELSE IF sorted[Len(sorted)].old_line <= m.old_line THEN Append(sorted, m)
  ELSE Append(InsertByOldLine(m, SubSeq(sorted, 1, Len(sorted) - 1)), sorted[Len(sorted)])

RECURSIVE SortFrom(_, _, _)
SortFrom(ms, k, sorted) ==
  IF k > Len(ms) THEN sorted ELSE SortFrom(ms, k + 1, InsertByOldLine(ms[k], sorted))

SortByOldLine(ms) == SortFrom(ms, 1, <<>>)

NewBlock(m) ==
  [old_start |-> m.old_line, old_end |-> m.old_line,
   new_start |-> m.new_line, new_end |-> m.new_line, line_count |-> 1]

Abs(x) == IF x < 0 THEN -x ELSE x

close_enough(old_diff, new_diff) ==
  (0 < old_diff /\ old_diff <= MaxGap) /\ (0 < new_diff /\ new_diff <= MaxGap)

\* gap_consistency that accepts every pair of gaps
gap_consistency_any(old_diff, new_diff) == TRUE

gap_consistency(old_diff, new_diff) == Abs(old_diff - new_diff) <= MaxGapSkew

\* SaveBlock without the line_count test
SaveBlockAlways(blks, blk) == Append(blks, blk)

\* if current_block['line_count'] >= 2: blocks.append(current_block)
SaveBlock(blks, blk) == IF blk.line_count >= MinBlockLines THEN Append(blks, blk) ELSE blks

\* FoldIter that extends old_end but leaves new_end where it was
FoldIterStaleNewEnd(bs, curr) ==
  LET old_diff == curr.old_line - bs.current_block.old_end
      new_diff == curr.new_line - bs.current_block.new_end
  IN IF close_enough(old_diff, new_diff) /\ gap_consistency(old_diff, new_diff)
     THEN [blocks |-> bs.blocks,
           current_block |-> [bs.current_block EXCEPT
                                !.old_end = curr.old_line,
                                !.line_count = @ + 1]]
     ELSE [blocks |-> SaveBlock(bs.blocks, bs.current_block),
           current_block |-> NewBlock(curr)]

\* one iteration of the fold; bs = [blocks, current_block]
FoldIter(bs, curr) ==
  LET old_diff == curr.old_line - bs.current_block.old_end
      new_diff == curr.new_line - bs.current_block.new_end
  IN IF close_enough(old_diff, new_diff) /\ gap_consistency(old_diff, new_diff)
     THEN [blocks |-> bs.blocks,
           current_block |-> [bs.current_block EXCEPT
                                !.old_end = curr.old_line,
                                !.new_end = curr.new_line,
                                !.line_count = @ + 1]]
     ELSE [blocks |-> SaveBlock(bs.blocks, bs.current_block),
           current_block |-> NewBlock(curr)]

\* the matching loop run to its end from old line k
RECURSIVE MatchLoop(_, _, _, _, _)
MatchLoop(norm, index, st, k, thr) ==
  IF k > Len(norm) THEN st
  ELSE MatchLoop(norm, index, MatchIter(norm, index, st, k, thr), k + 1, thr)

\* the fold run to its end from sorted match k
RECURSIVE FoldLoop(_, _, _)
FoldLoop(ms, bs, k) ==
  IF k > Len(ms) THEN bs ELSE FoldLoop(ms, FoldIter(bs, ms[k]), k + 1)

NoMatches == [matches |-> <<>>, used_new |-> {}]

\* the Match list the matching loop builds
all_matches(old, new, thr) ==
  MatchLoop(Normalized(old), BuildIndex(Normalized(new)), NoMatches, 1, thr).matches

\* the function as a whole: the Block list it returns
find_all_matches(old, new, thr) ==
  LET ms == all_matches(old, new, thr) IN
  IF ms = <<>> THEN <<>>
  ELSE LET sorted == SortByOldLine(ms)
           bs == FoldLoop(sorted, [blocks |-> <<>>, current_block |-> NewBlock(sorted[1])], 2)
       IN SaveBlock(bs.blocks, bs.current_block)

(***************************************************************************)
(* main(): the state of one run.                                           *)
(***************************************************************************)
VARIABLES
  old_file, new_file,     \* what args.old_file and args.new_file name
  threshold,              \* args.threshold
  pc,                     \* where the run is
  old_lines, new_lines,   \* what read_file_lines returned
  old_norm, new_norm, new_content_to_lines,
  matches, used_new,
  old_line_num,           \* the old line the matching loop comes to next
  blocks, current_block,
  i,                      \* the index (from 1) of the match the fold comes to next
  stdout, stderr,
  exit_code               \* the exit code of the process, -1 while it runs

vars == <<old_file, new_file, threshold, pc, old_lines, new_lines, old_norm, new_norm,
          new_content_to_lines, matches, used_new, old_line_num, blocks, current_block,
          i, stdout, stderr, exit_code>>

NoBlock == [old_start |-> 0, old_end |-> 0, new_start |-> 0, new_end |-> 0, line_count |-> 0]

Init ==
  /\ \E inp \in Inputs : old_file = inp[1] /\ new_file = inp[2]
  /\ threshold \in Thresholds
  /\ pc = "read_old"
  /\ old_lines = <<>> /\ new_lines = <<>>
  /\ old_norm = <<>> /\ new_norm = <<>> /\ new_content_to_lines = EmptyIndex
  /\ matches = <<>> /\ used_new = {}
  /\ old_line_num = 0
  /\ blocks = <<>> /\ current_block = NoBlock
  /\ i = 0
  /\ stdout = <<>> /\ stderr = <<>> /\ exit_code = -1

matchVars == <<old_norm, new_norm, new_content_to_lines, matches, used_new, old_line_num>>
blockVars == <<blocks, current_block, i>>
inputVars == <<old_file, new_file, threshold>>

\* an exception nothing catches: the traceback goes to stderr, the exit code is 1
Uncaught ==
  /\ pc' = "exited"
  /\ stderr' = Append(stderr, "Traceback")
  /\ exit_code' = 1
  /\ UNCHANGED stdout

\* old_lines = read_file_lines(args.old_file)
ReadOld ==
  /\ pc = "read_old"
  /\ IF read_file_raises(old_file)
     THEN Uncaught /\ UNCHANGED old_lines
     ELSE /\ old_lines' = read_file_lines(old_file)
          /\ pc' = "read_new"
          /\ UNCHANGED <<stdout, stderr, exit_code>>
  /\ UNCHANGED <<inputVars, new_lines, matchVars, blockVars>>

\* new_lines = read_file_lines(args.new_file)
ReadNew ==
  /\ pc = "read_new"
  /\ IF read_file_raises(new_file)
     THEN Uncaught /\ UNCHANGED new_lines
     ELSE /\ new_lines' = read_file_lines(new_file)
          /\ pc' = "check_old"
          /\ UNCHANGED <<stdout, stderr, exit_code>>
  /\ UNCHANGED <<inputVars, old_lines, matchVars, blockVars>>

OldError == [error |-> "Cannot read old file", keys |-> {"error", "matches"}]
NewError == [error |-> "Cannot read new file", keys |-> {"error", "matches", "blocks"}]

\* if not old_lines: print the error object; sys.exit(1)
CheckOld ==
  /\ pc = "check_old"
  /\ IF old_lines = <<>>
     THEN /\ stdout' = Append(stdout, OldError)
          /\ exit_code' = 1
          /\ pc' = "exited"
     ELSE /\ pc' = "check_new"
          /\ UNCHANGED <<stdout, exit_code>>
  /\ UNCHANGED <<inputVars, old_lines, new_lines, matchVars, blockVars, stderr>>

\* if not new_lines: print the error object; sys.exit(1)
CheckNew ==
  /\ pc = "check_new"
  /\ IF new_lines = <<>>
     THEN /\ stdout' = Append(stdout, NewError)
          /\ exit_code' = 1
          /\ pc' = "exited"
     ELSE /\ pc' = "index"
          /\ UNCHANGED <<stdout, exit_code>>
  /\ UNCHANGED <<inputVars, old_lines, new_lines, matchVars, blockVars, stderr>>

\* find_all_matches is entered: both files normalized, the new one indexed
Index ==
  /\ pc = "index"
  /\ old_norm' = Normalized(old_lines)
  /\ new_norm' = Normalized(new_lines)
  /\ new_content_to_lines' = BuildIndex(Normalized(new_lines))
  /\ matches' = <<>>
  /\ used_new' = {}
  /\ old_line_num' = 1
  /\ pc' = "match"
  /\ UNCHANGED <<inputVars, old_lines, new_lines, blockVars, stdout, stderr, exit_code>>

\* one iteration of the matching loop
MatchStep ==
  /\ pc = "match"
  /\ old_line_num <= Len(old_norm)
  /\ LET st == MatchIter(old_norm, new_content_to_lines,
                         [matches |-> matches, used_new |-> used_new],
                         old_line_num, threshold)
     IN matches' = st.matches /\ used_new' = st.used_new
  /\ old_line_num' = old_line_num + 1
  /\ UNCHANGED <<inputVars, pc, old_lines, new_lines, old_norm, new_norm,
                 new_content_to_lines, blockVars, stdout, stderr, exit_code>>

\* the matching loop is over: return [] on no match, else sort the matches
\* and open the first block
Group ==
  /\ pc = "match"
  /\ old_line_num > Len(old_norm)
  /\ IF matches = <<>>
     THEN /\ blocks' = <<>>
          /\ pc' = "report"
          /\ UNCHANGED <<matches, current_block, i>>
     ELSE /\ matches' = SortByOldLine(matches)
          /\ blocks' = <<>>
          /\ current_block' = NewBlock(SortByOldLine(matches)[1])
          /\ i' = 2
          /\ pc' = "fold"
  /\ UNCHANGED <<inputVars, old_lines, new_lines, old_norm, new_norm, new_content_to_lines,
                 used_new, old_line_num, stdout, stderr, exit_code>>

\* one iteration of the fold over matches[1:]
FoldStep ==
  /\ pc = "fold"
  /\ i <= Len(matches)
  /\ LET bs == FoldIter([blocks |-> blocks, current_block |-> current_block], matches[i])
     IN blocks' = bs.blocks /\ current_block' = bs.current_block
  /\ i' = i + 1
  /\ UNCHANGED <<inputVars, pc, old_lines, new_lines, matchVars, stdout, stderr, exit_code>>

\* the fold is over: the last block is saved and the list returned
FoldEnd ==
  /\ pc = "fold"
  /\ i > Len(matches)
  /\ blocks' = SaveBlock(blocks, current_block)
  /\ pc' = "report"
  /\ UNCHANGED <<inputVars, old_lines, new_lines, matchVars, current_block, i,
                 stdout, stderr, exit_code>>

RECURSIVE SumLineCount(_)
SumLineCount(blks) ==
  IF blks = <<>> THEN 0 ELSE Head(blks).line_count + SumLineCount(Tail(blks))

Result(blks) ==
  [block_count |-> Len(blks), total_lines |-> SumLineCount(blks), blocks |-> blks,
   keys |-> {"old_file", "new_file", "block_count", "total_lines", "blocks"}]

\* print(json.dumps(result, indent=2)); main returns and the exit code is 0
Report ==
  /\ pc = "report"
  /\ stdout' = Append(stdout, Result(blocks))
  /\ exit_code' = 0
  /\ pc' = "exited"
  /\ UNCHANGED <<inputVars, old_lines, new_lines, matchVars, blockVars, stderr>>

Next ==
  \/ ReadOld
  \/ ReadNew
  \/ CheckOld
  \/ CheckNew
  \/ Index
  \/ MatchStep
  \/ Group
  \/ FoldStep
  \/ FoldEnd
  \/ Report

Spec == Init /\ [][Next]_vars

(***************************************************************************)
(* Properties.                                                             *)
(***************************************************************************)
MinOf(S) == CHOOSE x \in S : \A y \in S : x <= y

\* the matching loop has run over every old line
MatchingOver == pc \in {"fold", "report"} \/ (pc = "match" /\ old_line_num > Len(old_norm))

\* find_all_matches has returned its Block list
Returned == pc = "report"

\* C1: the Match list the matching loop builds holds no new_line in more
\* than one Match and no Match whose old_line equals its new_line.
C1_NewLinesDistinctNoSelfPair ==
  \A a, b \in 1..Len(matches) :
    /\ a # b => matches[a].new_line # matches[b].new_line
    /\ matches[a].old_line # matches[a].new_line

\* C1 witness: the loop is over, it emitted two Matches, and some old line
\* found among its candidates both its own line number and a line that
\* another old line claimed.
C1_Witness ==
  /\ MatchingOver
  /\ Len(matches) >= 2
  /\ \E o \in 1..Len(old_norm) :
       /\ Len(old_norm[o]) >= 5
       /\ o \in 1..Len(new_norm) /\ new_norm[o] = old_norm[o]
       /\ \E k \in 1..Len(matches) :
            /\ matches[k].old_line # o
            /\ new_norm[matches[k].new_line] = old_norm[o]

\* C2: every returned Block has line_count >= 2, old_start <= old_end and
\* new_start <= new_end, and consecutive returned Blocks have strictly
\* increasing old_start.
C2_BlocksWellFormed ==
  Returned =>
    /\ \A k \in 1..Len(blocks) :
         /\ blocks[k].line_count >= 2
         /\ blocks[k].old_start <= blocks[k].old_end
         /\ blocks[k].new_start <= blocks[k].new_end
    /\ \A k \in 1..(Len(blocks) - 1) : blocks[k].old_start < blocks[k + 1].old_start

\* C2 witness: two Blocks are returned, one of them of three lines or more.
C2_Witness ==
  /\ Returned
  /\ Len(blocks) >= 2
  /\ \E k \in 1..Len(blocks) : blocks[k].line_count >= 3

\* the gaps between sorted Matches k and k+1 meet the merge condition
Linked(ms, k) ==
  LET old_gap == ms[k + 1].old_line - ms[k].old_line
      new_gap == ms[k + 1].new_line - ms[k].new_line
  IN /\ 0 < old_gap /\ old_gap <= 4
     /\ 0 < new_gap /\ new_gap <= 4
     /\ old_gap - new_gap <= 2 /\ new_gap - old_gap <= 2

\* the maximal runs a..b of Matches each linked to the next
Runs(ms) ==
  {r \in (1..Len(ms)) \X (1..Len(ms)) :
     /\ r[1] <= r[2]
     /\ \A k \in r[1]..(r[2] - 1) : Linked(ms, k)
     /\ (r[1] > 1 => ~Linked(ms, r[1] - 1))
     /\ (r[2] < Len(ms) => ~Linked(ms, r[2]))}

BlockOfRun(ms, r) ==
  [old_start |-> ms[r[1]].old_line, old_end |-> ms[r[2]].old_line,
   new_start |-> ms[r[1]].new_line, new_end |-> ms[r[2]].new_line,
   line_count |-> r[2] - r[1] + 1]

\* C3: two adjacent sorted Matches share an accumulator exactly when
\* 0 < old_gap <= 4, 0 < new_gap <= 4 and |old_gap - new_gap| <= 2, so the
\* returned Blocks are the maximal runs of two or more linked Matches, each
\* with the number of its Matches as line_count, and a run of one Match
\* gives no Block.
C3_BlocksAreMaximalRuns ==
  Returned =>
    LET long == {r \in Runs(matches) : r[2] > r[1]} IN
    /\ Len(blocks) = Cardinality(long)
    /\ {blocks[k] : k \in 1..Len(blocks)} = {BlockOfRun(matches, r) : r \in long}

\* C3 witness: two adjacent Matches with both gaps within 1..4 whose gaps
\* differ by more than 2 were kept apart.
C3_Witness ==
  /\ Returned
  /\ \E k \in 1..(Len(matches) - 1) :
       LET old_gap == matches[k + 1].old_line - matches[k].old_line
           new_gap == matches[k + 1].new_line - matches[k].new_line
       IN /\ old_gap \in 1..4 /\ new_gap \in 1..4
          /\ (old_gap - new_gap > 2 \/ new_gap - old_gap > 2)
          /\ ~\E j \in 1..Len(blocks) :
                /\ blocks[j].old_start <= matches[k].old_line
                /\ matches[k + 1].old_line <= blocks[j].old_end

\* the cases C3 names: two Matches five old lines apart give no Block
C3_GapFiveReached ==
  /\ Returned /\ Len(matches) = 2 /\ blocks = <<>>
  /\ matches[2].old_line - matches[1].old_line = 5
  /\ matches[2].new_line - matches[1].new_line \in 1..4

\* and two Matches with old_gap 3 and new_gap 8 give no Block
C3_GapThreeEightReached ==
  /\ Returned /\ Len(matches) = 2 /\ blocks = <<>>
  /\ matches[2].old_line - matches[1].old_line = 3
  /\ matches[2].new_line - matches[1].new_line = 8

\* the path names no file that can be read, or a file with no line in it
NoLines(file) == file.kind # "text" \/ file.lines = <<>>

\* C4: when either input cannot be read (missing or unreadable for any other
\* reason) or is empty, the run prints one JSON error object to stdout and
\* exits with code 1 without matching or reporting, the old file being
\* checked first; the success report with exit code 0 comes only when both
\* inputs yield a line.
C4_UnreadableOrEmptyGivesJsonError ==
  pc = "exited" =>
    /\ (NoLines(old_file) \/ NoLines(new_file)) =>
         /\ stdout = <<IF NoLines(old_file) THEN OldError ELSE NewError>>
         /\ exit_code = 1
         /\ old_line_num = 0
    /\ (exit_code = 0 /\ stdout = <<Result(blocks)>>) <=>
         (~NoLines(old_file) /\ ~NoLines(new_file))

\* C5: the threshold is inert: whatever threshold the run was given, the
\* Block list find_all_matches returns, and the report printed from it, are
\* those every other threshold gives for the same two line sequences.
C5_ThresholdInert ==
  /\ Returned => \A t \in Thresholds : blocks = find_all_matches(old_lines, new_lines, t)
  /\ (pc = "exited" /\ exit_code = 0) =>
       \A t \in Thresholds : stdout = <<Result(find_all_matches(old_lines, new_lines, t))>>

\* C5 witness: a run given a threshold other than the default printed a
\* report holding a Block.
C5_Witness ==
  /\ pc = "exited" /\ exit_code = 0
  /\ threshold # DefaultThreshold
  /\ blocks # <<>>
  /\ stdout = <<Result(blocks)>>

\* old lines a..a+k-1 are a verbatim moved run found at new lines b..b+k-1,
\* and nothing else of length >= 5 is common to the two files
VerbatimMovedRun(a, k, b) ==
  /\ k >= 2 /\ b # a
  /\ a + k - 1 <= Len(old_norm) /\ b + k - 1 <= Len(new_norm)
  /\ \A d \in 0..(k - 1) :
       /\ Len(old_norm[a + d]) >= 5
       /\ new_norm[b + d] = old_norm[a + d]
  /\ \A d, e \in 0..(k - 1) : d # e => old_norm[a + d] # old_norm[a + e]
  /\ \A p \in 1..Len(old_norm) :
       (p \notin a..(a + k - 1) /\ Len(old_norm[p]) >= 5) =>
          \A q \in 1..Len(new_norm) : new_norm[q] # old_norm[p]
  /\ \A q \in 1..Len(new_norm) :
       (q \notin b..(b + k - 1) /\ Len(new_norm[q]) >= 5) =>
          \A p \in 1..Len(old_norm) : old_norm[p] # new_norm[q]

MovedBlock(a, k, b) ==
  [old_start |-> a, old_end |-> a + k - 1, new_start |-> b, new_end |-> b + k - 1,
   line_count |-> k]

\* C6: a verbatim moved run of k >= 2 distinct lines of length >= 5, old
\* lines a..a+k-1 found at new lines b..b+k-1 with b # a, nothing else of
\* length >= 5 being common to the files, is returned as exactly one Block
\* a..a+k-1 -> b..b+k-1 of line_count k.
C6_MovedRunIsOneBlock ==
  Returned =>
    \A a \in 1..Len(old_norm), b \in 1..Len(new_norm), k \in 2..Len(old_norm) :
      VerbatimMovedRun(a, k, b) => blocks = <<MovedBlock(a, k, b)>>

\* C6 witness: a run of three lines or more moved, to lines before or after
\* it, and came back as its one Block.
C6_Witness ==
  /\ Returned
  /\ \E a \in 1..Len(old_norm), b \in 1..Len(new_norm), k \in 3..Len(old_norm) :
       VerbatimMovedRun(a, k, b) /\ blocks = <<MovedBlock(a, k, b)>>

\* the two files hold the same lines and no content of length >= 5 twice
IdenticalNoRepeat ==
  /\ old_file.kind = "text" /\ new_file = old_file
  /\ \A p, q \in 1..Len(old_file.lines) :
       (p # q /\ Len(normalize_line(old_file.lines[p])) >= 5) =>
          normalize_line(old_file.lines[p]) # normalize_line(old_file.lines[q])

\* C7: unmoved lines are never reported: with identical old and new line
\* sequences in which no content of length >= 5 is on two lines, no Match
\* is ever emitted and no Block returned.
C7_IdenticalFilesNoMatch ==
  IdenticalNoRepeat => matches = <<>> /\ blocks = <<>>

\* C7 witness: the loop ran over identical files with two or more lines of
\* length >= 5, each its own only candidate, and the function returned.
C7_Witness ==
  /\ Returned
  /\ IdenticalNoRepeat
  /\ Cardinality({p \in 1..Len(old_norm) :
                    Len(old_norm[p]) >= 5 /\ old_norm[p] \in DOMAIN new_content_to_lines}) >= 2
  /\ matches = <<>> /\ blocks = <<>>

\* the Matches emitted for old line o, by their place in the list
MatchesOf(o) == {k \in 1..Len(matches) : matches[k].old_line = o}

\* the new lines old line o may claim: same content, not claimed by an
\* earlier old line, not o itself
Candidates(o) ==
  {n \in 1..Len(new_norm) :
     /\ new_norm[n] = old_norm[o]
     /\ n # o
     /\ ~\E k \in 1..Len(matches) : matches[k].old_line < o /\ matches[k].new_line = n}

\* C8: old lines are taken in ascending order; an old line of normalized
\* length >= 5 emits at most one Match, to the lowest new line with the
\* same content that no earlier old line claimed and that is not the old
\* line's own number, and none exactly when there is no such new line; an
\* old line of normalized length < 5 emits none.
C8_LowestUnclaimedCandidate ==
  pc = "match" =>
    /\ \A k \in 1..(Len(matches) - 1) : matches[k].old_line < matches[k + 1].old_line
    /\ \A k \in 1..Len(matches) : matches[k].old_line < old_line_num
    /\ \A o \in 1..(old_line_num - 1) :
         IF Len(old_norm[o]) >= 5 /\ Candidates(o) # {}
         THEN /\ Cardinality(MatchesOf(o)) = 1
              /\ \A k \in MatchesOf(o) : matches[k].new_line = MinOf(Candidates(o))
         ELSE MatchesOf(o) = {}

\* C8 witness: the loop is over; one old line was matched past a lower new
\* line of the same content, and another old line of length >= 5 whose
\* content is in the new file emitted nothing.
C8_Witness ==
  /\ pc = "match" /\ old_line_num > Len(old_norm)
  /\ \E k \in 1..Len(matches) :
       \E n \in 1..(matches[k].new_line - 1) : new_norm[n] = old_norm[matches[k].old_line]
  /\ \E o \in 1..Len(old_norm) :
       /\ Len(old_norm[o]) >= 5
       /\ old_norm[o] \in DOMAIN new_content_to_lines
       /\ MatchesOf(o) = {}

\* C9 as stated: of two Matches with the same normalized content, the one
\* with the smaller old_line has the smaller new_line.
C9_ClaimsIncrease ==
  \A a, b \in 1..Len(matches) :
    (/\ matches[a].old_line < matches[b].old_line
     /\ old_norm[matches[a].old_line] = old_norm[matches[b].old_line])
    => matches[a].new_line < matches[b].new_line

\* C9 amended: of two Matches with the same normalized content, the one
\* with the smaller old_line has the smaller new_line, unless the later
\* Match's new_line is the earlier Match's old_line (the candidate the
\* earlier old line passed over as a self-pair).
C9_ClaimsIncreaseButForSelfPair ==
  \A a, b \in 1..Len(matches) :
    (/\ matches[a].old_line < matches[b].old_line
     /\ old_norm[matches[a].old_line] = old_norm[matches[b].old_line])
    => \/ matches[a].new_line < matches[b].new_line
       \/ matches[b].new_line = matches[a].old_line

\* C9 witness: two old lines of one content were matched, both the rising
\* order and the exception being seen in the one run.
C9_Witness ==
  /\ MatchingOver
  /\ \E a, b \in 1..Len(matches) :
       /\ matches[a].old_line < matches[b].old_line
       /\ old_norm[matches[a].old_line] = old_norm[matches[b].old_line]
       /\ matches[a].new_line < matches[b].new_line
  /\ \E a, b \in 1..Len(matches) :
       /\ matches[a].old_line < matches[b].old_line
       /\ old_norm[matches[a].old_line] = old_norm[matches[b].old_line]
       /\ matches[b].new_line = matches[a].old_line

\* C10: the old-side ranges of the returned Blocks are disjoint and in
\* order: each Block ends on the old side before the next one starts.
C10_OldRangesDisjoint ==
  Returned => \A k \in 1..(Len(blocks) - 1) : blocks[k].old_end < blocks[k + 1].old_start

\* C10 witness: two Blocks were returned whose new-side ranges are in the
\* opposite order to their old-side ranges.
C10_Witness ==
  /\ Returned
  /\ \E k \in 1..(Len(blocks) - 1) :
       /\ blocks[k].old_end < blocks[k + 1].old_start
       /\ blocks[k + 1].new_end < blocks[k].new_start

====
